---- MODULE Spec2Model ----
(***************************************************************************)
(* carddav-birthdays: the vCard birthday extractor (parseBirthdayVCard),   *)
(* the iCalendar serializer (generateBirthdayIcs) and the HTTP handler     *)
(* that authorizes a request, fetches an address book and serves the feed. *)
(*                                                                         *)
(* A Go string is a sequence of one-character strings, so that prefix      *)
(* tests, trimming, splitting, truncation and date parsing are computed    *)
(* character by character as the code computes them.                       *)
(***************************************************************************)
EXTENDS Integers, Sequences, FiniteSets, TLC

VARIABLES
    pc,            \* position of the handler: idle, key, book, fetch, parse, generate, respond, done
    reqKey,        \* r.FormValue("apiKey") of the request being served
    reqName,       \* r.PathValue("addressBook") of the request being served
    fetchStarted,  \* client.Do has been called for this request
    pending,       \* propstat entries of the multistatus response not yet parsed
    vcard,         \* the raw record last handed to parseBirthdayVCard
    given,         \* what that record was built from, when built from a calendar day
    scan,          \* the locals of parseBirthdayVCard at the end of its line scan
    result,        \* what parseBirthdayVCard returned: a Birthday or Nil
    birthdays,     \* the []Birthday collected by getBirthdays
    calendar,      \* the string generateBirthdayIcs returned
    headers,       \* response headers set by the handler
    body,          \* response body written by the handler
    err            \* the error the handler returned, or Nil

vars == <<pc, reqKey, reqName, fetchStarted, pending, vcard, given, scan, result,
          birthdays, calendar, headers, body, err>>

\* a nil pointer, a nil error; a non-nil pointer to x is <<x>>
Nil == << >>

Some(x) == <<x>>

-----------------------------------------------------------------------------
(* package strings                                                         *)

Empty == << >>

\* unicode.IsSpace on the characters that occur
IsSpace(c) == c \in {" ", "\t", "\n", "\r"}

Digits == {"0", "1", "2", "3", "4", "5", "6", "7", "8", "9"}

DigitVal == [c \in Digits |->
               CASE c = "0" -> 0 [] c = "1" -> 1 [] c = "2" -> 2 [] c = "3" -> 3
                 [] c = "4" -> 4 [] c = "5" -> 5 [] c = "6" -> 6 [] c = "7" -> 7
                 [] c = "8" -> 8 [] c = "9" -> 9]

DigitChar == <<"0", "1", "2", "3", "4", "5", "6", "7", "8", "9">>

Drop(s, n) == SubSeq(s, n + 1, Len(s))

Take(s, n) == SubSeq(s, 1, n)

HasPrefix(s, p) == Len(s) >= Len(p) /\ Take(s, Len(p)) = p

TrimPrefix(s, p) == IF HasPrefix(s, p) THEN Drop(s, Len(p)) ELSE s

\* strings.Index: 0-based position of the first occurrence of sub, or -1
RECURSIVE IndexFrom(_, _, _)
IndexFrom(s, sub, i) ==
    IF i + Len(sub) > Len(s) THEN -1
    ELSE IF SubSeq(s, i + 1, i + Len(sub)) = sub THEN i
    ELSE IndexFrom(s, sub, i + 1)

Index(s, sub) == IndexFrom(s, sub, 0)

Contains(s, sub) == Index(s, sub) >= 0

\* strings.Split with a non-empty separator
RECURSIVE Split(_, _)
Split(s, sep) ==
    LET i == Index(s, sep)
    IN  IF i < 0 THEN <<s>>
        ELSE <<Take(s, i)>> \o Split(Drop(s, i + Len(sep)), sep)

RECURSIVE TrimLeft(_)
TrimLeft(s) == IF s # Empty /\ IsSpace(Head(s)) THEN TrimLeft(Tail(s)) ELSE s

RECURSIVE TrimRight(_)
TrimRight(s) ==
    IF s # Empty /\ IsSpace(s[Len(s)]) THEN TrimRight(Take(s, Len(s) - 1)) ELSE s

TrimSpace(s) == TrimRight(TrimLeft(s))

\* strings.ReplaceAll(s, old, "") for a one-character old
RECURSIVE RemoveAll(_, _)
RemoveAll(s, c) ==
    IF s = Empty THEN Empty
    ELSE IF Head(s) = c THEN RemoveAll(Tail(s), c)
    ELSE <<Head(s)>> \o RemoveAll(Tail(s), c)

-----------------------------------------------------------------------------
(* package time: Parse and Format for layouts made of 2006, 01, 02 and     *)
(* literal separators; a time.Time is its UTC civil fields.                *)

IsLeap(y) == y % 4 = 0 /\ (y % 100 # 0 \/ y % 400 = 0)

daysIn(m, y) ==
    IF m = 2 THEN (IF IsLeap(y) THEN 29 ELSE 28)
    ELSE IF m \in {4, 6, 9, 11} THEN 30 ELSE 31

isDigit(s, i) == Len(s) > i /\ s[i + 1] \in Digits

\* the layout chunks nextStdChunk finds in each layout string
stdLongYear == "2006"
stdZeroMonth == "01"
stdZeroDay == "02"

LayoutCompact == <<stdLongYear, stdZeroMonth, stdZeroDay>>
LayoutHyphen == <<stdLongYear, "-", stdZeroMonth, "-", stdZeroDay>>
LayoutSlash == <<stdLongYear, "/", stdZeroMonth, "/", stdZeroDay>>

\* Consumes value chunk by chunk; f holds the fields read so far.
RECURSIVE parseChunks(_, _, _)
parseChunks(layout, value, f) ==
    IF layout = Empty THEN
        IF value # Empty THEN Nil                      \* extra text
        ELSE IF f.day < 1 \/ f.day > daysIn(f.month, f.year) THEN Nil
        ELSE Some([year |-> f.year, month |-> f.month, day |-> f.day,
                   hour |-> 0, min |-> 0, sec |-> 0])
    ELSE LET std == Head(layout) IN
        IF std = stdLongYear THEN
            IF Len(value) < 4 \/ \E i \in 0..3 : ~isDigit(value, i) THEN Nil
            ELSE parseChunks(Tail(layout), Drop(value, 4),
                     [f EXCEPT !.year = DigitVal[value[1]] * 1000 + DigitVal[value[2]] * 100
                                        + DigitVal[value[3]] * 10 + DigitVal[value[4]]])
        ELSE IF std \in {stdZeroMonth, stdZeroDay} THEN
            \* getnum(value, fixed = true)
            IF ~isDigit(value, 0) \/ ~isDigit(value, 1) THEN Nil
            ELSE LET n == DigitVal[value[1]] * 10 + DigitVal[value[2]] IN
                IF std = stdZeroMonth
                THEN IF n <= 0 \/ 12 < n THEN Nil
                     ELSE parseChunks(Tail(layout), Drop(value, 2), [f EXCEPT !.month = n])
                ELSE parseChunks(Tail(layout), Drop(value, 2), [f EXCEPT !.day = n])
        ELSE \* a literal of the layout must be the next character of the value
            IF value = Empty \/ Head(value) # std THEN Nil
            ELSE parseChunks(Tail(layout), Tail(value), f)

timeParse(layout, value) ==
    parseChunks(layout, value, [year |-> 0, month |-> 1, day |-> 1])

\* n as exactly w decimal digits (n < 10^w)
RECURSIVE Pad(_, _)
Pad(n, w) == IF w = 0 THEN Empty ELSE Pad(n \div 10, w - 1) \o <<DigitChar[(n % 10) + 1]>>

RECURSIVE timeFormatChunks(_, _)
timeFormatChunks(layout, t) ==
    IF layout = Empty THEN Empty
    ELSE LET std == Head(layout) IN
         (IF std = stdLongYear THEN Pad(t.year, 4)
          ELSE IF std = stdZeroMonth THEN Pad(t.month, 2)
          ELSE IF std = stdZeroDay THEN Pad(t.day, 2)
          ELSE <<std>>) \o timeFormatChunks(Tail(layout), t)

timeFormat(t, layout) == timeFormatChunks(layout, t)

\* fmt's %d of a non-negative int
RECURSIVE Itoa(_)
Itoa(n) == IF n < 10 THEN <<DigitChar[n + 1]>> ELSE Itoa(n \div 10) \o <<DigitChar[(n % 10) + 1]>>

-----------------------------------------------------------------------------
(* goslu/date as this program uses it: a Date is a civil day.              *)

FromTime(t) == [year |-> t.year, month |-> t.month, day |-> t.day]

ToStdTime(d) == [year |-> d.year, month |-> d.month, day |-> d.day,
                 hour |-> 0, min |-> 0, sec |-> 0]

DateString(d) == timeFormat(ToStdTime(d), LayoutHyphen)

-----------------------------------------------------------------------------
(* parseBirthdayVCard                                                      *)

\* the locals declared before the loop
scanInit == [name |-> Empty, fullName |-> Empty, uid |-> Empty,
             birthdayDate |-> Nil,
             printed |-> << >>,   \* the values fmt.Printf reported as failed
             tried |-> << >>]     \* the layouts time.Parse was last called with

\* mutant: the layouts in the reverse order
formats_reversed == <<LayoutSlash, LayoutHyphen, LayoutCompact>>

formats == <<LayoutCompact, LayoutHyphen, LayoutSlash>>

\* the value of a line that starts with BDAY; "" when neither form applies
bdayValue(line) ==
    IF Contains(line, <<";","V","A","L","U","E","=","d","a","t","e",":">>) THEN
        LET parts == Split(line, <<";","V","A","L","U","E","=","d","a","t","e",":">>)
        IN  IF Len(parts) = 2 THEN parts[2] ELSE Empty
    ELSE IF HasPrefix(line, <<"B","D","A","Y",":">>) THEN TrimPrefix(line, <<"B","D","A","Y",":">>)
    ELSE Empty

\* bdayStr[:idx] at the first T
stripTime(bdayStr) ==
    LET idx == Index(bdayStr, <<"T">>)
    IN  IF idx # -1 THEN Take(bdayStr, idx) ELSE bdayStr

\* the loop over the formats: the first layout that parses ends it
RECURSIVE tryFormats(_, _, _)
tryFormats(fs, bdayStr, tried) ==
    IF fs = << >> THEN [date |-> Nil, tried |-> tried]
    ELSE LET t == timeParse(Head(fs), bdayStr)
         IN  IF t # Nil THEN [date |-> t, tried |-> Append(tried, Head(fs))]
             ELSE tryFormats(Tail(fs), bdayStr, Append(tried, Head(fs)))

\* the BDAY branch of the loop body
scanBday(st, line) ==
    LET bdayStr == bdayValue(line) IN
    IF bdayStr = Empty THEN st
    ELSE LET str == stripTime(bdayStr)
             got == tryFormats(formats, str, << >>)
             date == IF got.date # Nil THEN got.date ELSE st.birthdayDate
         IN  [st EXCEPT !.birthdayDate = date,
                        !.tried = got.tried,
                        !.printed = IF date = Nil THEN Append(@, str) ELSE @]

\* one iteration of the loop over the lines
scanLine(st, rawLine) ==
    LET line == TrimSpace(rawLine)
        s1 == IF HasPrefix(line, <<"N",":">>)
              THEN [st EXCEPT !.name = TrimPrefix(line, <<"N",":">>)] ELSE st
        s2 == IF HasPrefix(line, <<"F","N",":">>)
              THEN [s1 EXCEPT !.fullName = TrimPrefix(line, <<"F","N",":">>)] ELSE s1
        s3 == IF HasPrefix(line, <<"U","I","D",":">>)
              THEN [s2 EXCEPT !.uid = TrimPrefix(line, <<"U","I","D",":">>)] ELSE s2
    IN  IF HasPrefix(line, <<"B","D","A","Y">>) THEN scanBday(s3, line) ELSE s3

RECURSIVE scanLines(_, _)
scanLines(lines, st) ==
    IF lines = << >> THEN st ELSE scanLines(Tail(lines), scanLine(st, Head(lines)))

\* mutant: the name test is dropped from the return condition
makeBirthday_noNameTest(st) ==
    IF st.birthdayDate # Nil
    THEN LET displayName == IF st.fullName = Empty THEN st.name ELSE st.fullName
         IN  Some([UID |-> st.uid, FullName |-> displayName,
                   Date |-> FromTime(st.birthdayDate[1])])
    ELSE Nil

\* the return statement: a Birthday only with a date and a name
makeBirthday(st) ==
    IF st.birthdayDate # Nil /\ (st.name # Empty \/ st.fullName # Empty)
    THEN LET displayName == IF st.fullName = Empty THEN st.name ELSE st.fullName
         IN  Some([UID |-> st.uid, FullName |-> displayName,
                   Date |-> FromTime(st.birthdayDate[1])])
    ELSE Nil

parseBirthdayVCard(v) ==
    LET st == scanLines(Split(v, <<"\n">>), scanInit)
    IN  [scan |-> st, ret |-> makeBirthday(st)]

-----------------------------------------------------------------------------
(* generateBirthdayIcs                                                     *)

\* mutant: lines end with a bare line feed
CRLF_bareLF == <<"\n">>

CRLF == <<"\r","\n">>

icsHeader ==
    <<"B","E","G","I","N",":","V","C","A","L","E","N","D","A","R">> \o CRLF
    \o <<"V","E","R","S","I","O","N",":","2",".","0">> \o CRLF
    \o <<"P","R","O","D","I","D",":","-","/","/","C","a","r","d","D","A","V"," ","B","i","r","t","h","d","a","y","s","/","/","E","N">> \o CRLF
    \o <<"C","A","L","S","C","A","L","E",":","G","R","E","G","O","R","I","A","N">> \o CRLF

icsFooter == <<"E","N","D",":","V","C","A","L","E","N","D","A","R">> \o CRLF

\* mutant: the spaces of the name are kept in the identifier
eventUID_keepSpaces(birthday) ==
    birthday.FullName \o <<"-","b","i","r","t","h","d","a","y","-">> \o Itoa(ToStdTime(birthday.Date).year)

eventUID(birthday) ==
    RemoveAll(birthday.FullName, " ") \o <<"-","b","i","r","t","h","d","a","y","-">>
    \o Itoa(ToStdTime(birthday.Date).year)

eventStart(birthday) == timeFormat(ToStdTime(birthday.Date), LayoutCompact)

\* the eight WriteString calls of one loop iteration
icsEvent(birthday) ==
    <<"B","E","G","I","N",":","V","E","V","E","N","T">> \o CRLF
    \o <<"U","I","D",":">> \o eventUID(birthday) \o CRLF
    \o <<"D","T","S","T","A","R","T",";","V","A","L","U","E","=","D","A","T","E",":">> \o eventStart(birthday) \o CRLF
    \o <<"R","R","U","L","E",":","F","R","E","Q","=","Y","E","A","R","L","Y">> \o CRLF
    \o <<"S","U","M","M","A","R","Y",":">> \o birthday.FullName \o <<"'","s"," ","B","i","r","t","h","d","a","y">> \o CRLF
    \o <<"D","E","S","C","R","I","P","T","I","O","N",":">> \o birthday.FullName \o <<" ","b","o","r","n"," ","o","n"," ">>
                         \o DateString(birthday.Date) \o CRLF
    \o <<"T","R","A","N","S","P",":","T","R","A","N","S","P","A","R","E","N","T">> \o CRLF
    \o <<"E","N","D",":","V","E","V","E","N","T">> \o CRLF

RECURSIVE icsEvents(_)
\* mutant: the blocks are written last fact first
icsEvents_reversed(bs) ==
    IF bs = << >> THEN Empty ELSE icsEvents(Tail(bs)) \o icsEvent(Head(bs))

icsEvents(bs) == IF bs = << >> THEN Empty ELSE icsEvent(Head(bs)) \o icsEvents(Tail(bs))

\* today is accepted and not used
generateBirthdayIcs(bs, today) == icsHeader \o icsEvents(bs) \o icsFooter

-----------------------------------------------------------------------------
(* The records handed to the extractor.  A record is the lines of a name   *)
(* block followed by birthday lines, joined by line feeds.                 *)

MaxBday == 2      \* birthday lines in one record
MaxCards == 2     \* propstat entries in one multistatus response

RECURSIVE Join(_, _)
Join(lines, sep) ==
    IF lines = << >> THEN Empty
    ELSE IF Len(lines) = 1 THEN lines[1]
    ELSE lines[1] \o sep \o Join(Tail(lines), sep)

NameBlocks ==
    { << >>,
      << <<"F","N",":","J","a","n","e"," ","D","o","e">> >>,
      << <<"N",":","D","o","e",";","J","a","n","e",";",";",";">> >>,
      << <<"F","N",":","J","a","n","e"," ","D","o","e">>, <<"N",":","D","o","e",";","J","a","n","e",";",";",";">> >>,
      << <<"F","N",":">>, <<"N",":","D","o","e",";","J","a","n","e",";",";",";">> >>,
      << <<" ","U","I","D",":","u","1","\r">>, <<"\t","F","N",":","A","l"," ","B","\r">> >> }

BdayEncodings == { <<"B","D","A","Y",":">>, <<"B","D","A","Y",";","V","A","L","U","E","=","d","a","t","e",":">> }

\* birthday lines: both encodings, the three layouts, an impossible day, an
\* unparseable value, no value, a date-time, and lines that are no BDAY field
BdayLines ==
    { <<"B","D","A","Y",":","2","0","0","3","0","6","1","5">>, <<"B","D","A","Y",":","2","0","0","3","-","0","6","-","1","5">>, <<"B","D","A","Y",";","V","A","L","U","E","=","d","a","t","e",":","2","0","0","3","/","0","6","/","1","5">>,
      <<"B","D","A","Y",";","V","A","L","U","E","=","d","a","t","e",":","2","0","0","4","0","2","2","9">>, <<"B","D","A","Y",":","2","0","0","3","0","2","2","9">>,
      <<"B","D","A","Y",":","n","o","p","e">>, <<"B","D","A","Y",";","V","A","L","U","E","=","d","a","t","e",":","n","o","p","e">>,
      <<"B","D","A","Y",":">>, <<"B","D","A","Y",";","V","A","L","U","E","=","d","a","t","e",":">>,
      <<"B","D","A","Y",":","2","0","0","3","0","6","1","5","T","0","0","0","0","0","0","Z">>,
      <<"B","D","A","Y","X",";","V","A","L","U","E","=","d","a","t","e",":","2","0","0","4","0","2","2","9">>, <<"b","d","a","y",":","2","0","0","4","0","2","2","9">>, <<" ","B","D","A","Y",":","1","9","9","9","-","1","2","-","3","1","\r">> }

BdaySeqs == UNION { [1..n -> BdayLines] : n \in 0..MaxBday }

\* records with up to MaxBday birthday lines
MultiCards == { Join(nb \o bs, <<"\n">>) : nb \in NameBlocks, bs \in BdaySeqs }

\* the calendar days of some years, for records with one birthday line
Years == {1900, 2000, 2003}

CivilDays ==
    { [year |-> y, month |-> m, day |-> d, hour |-> 0, min |-> 0, sec |-> 0] :
        y \in Years, m \in 1..12, d \in 1..31 }

ValidDays == { t \in CivilDays : t.day <= daysIn(t.month, t.year) }

\* the address-data of the entries a multistatus response carries
SampleCards ==
    { Join(<< <<"B","E","G","I","N",":","V","C","A","R","D">>, <<"F","N",":","J","a","n","e"," ","D","o","e">>, <<"B","D","A","Y",":","2","0","0","3","0","6","1","5">>, <<"E","N","D",":","V","C","A","R","D">> >>, <<"\n">>),
      Join(<< <<"U","I","D",":","u","1","\r">>, <<"N",":","R","o","e",";","A","l","\r">>, <<"B","D","A","Y",";","V","A","L","U","E","=","d","a","t","e",":","0","9","8","7","-","0","1","-","0","2","T","0","0",":","0","0",":","0","0","Z","\r">> >>, <<"\n">>),
      Join(<< <<"F","N",":","A","\r","B"," "," ","C">>, <<"B","D","A","Y",":","2","0","0","4","/","0","2","/","2","9">> >>, <<"\n">>),
      Join(<< <<"F","N",":","N","o"," ","D","a","t","e">>, <<"B","D","A","Y",":","n","o","p","e">> >>, <<"\n">>),
      <<"B","D","A","Y",":","2","0","0","3","0","6","1","5">> }

-----------------------------------------------------------------------------
(* Configuration and requests                                              *)

apiKey == "secret"

addressBooks == {"family", "work"}

RequestKeys == {"secret", "wrong", ""}

RequestNames == {"family", "work", "other"}

Todays == { [year |-> 2026, month |-> 1, day |-> 1] }

FetchErrors ==
    { "failed to create request", "failed to make request",
      "unexpected status", "failed to parse XML response" }

-----------------------------------------------------------------------------
(* The handler, one action per step of Handler and of the functions it     *)
(* calls.                                                                  *)

Init ==
    /\ pc = "idle"
    /\ reqKey = ""
    /\ reqName = ""
    /\ fetchStarted = FALSE
    /\ pending = 0
    /\ vcard = Empty
    /\ given = Nil
    /\ scan = scanInit
    /\ result = Nil
    /\ birthdays = << >>
    /\ calendar = Empty
    /\ headers = {}
    /\ body = Empty
    /\ err = Nil

\* a request arrives: a fresh ResponseWriter, no error yet
Request ==
    /\ pc \in {"idle", "done"}
    /\ \E k \in RequestKeys, n \in RequestNames :
         /\ reqKey' = k
         /\ reqName' = n
    /\ pc' = "key"
    /\ fetchStarted' = FALSE
    /\ pending' = 0
    /\ vcard' = Empty
    /\ given' = Nil
    /\ scan' = scanInit
    /\ result' = Nil
    /\ birthdays' = << >>
    /\ calendar' = Empty
    /\ headers' = {}
    /\ body' = Empty
    /\ err' = Nil

\* mutant: the key comparison never rejects
CheckApiKey_neverRejects ==
    /\ pc = "key"
    /\ pc' = "book"
    /\ UNCHANGED <<reqKey, reqName, fetchStarted, pending, vcard, given, scan, result,
                   birthdays, calendar, headers, body, err>>

CheckApiKey ==
    /\ pc = "key"
    /\ IF reqKey # apiKey
       THEN pc' = "done" /\ err' = Some("invalid api key")
       ELSE pc' = "book" /\ err' = err
    /\ UNCHANGED <<reqKey, reqName, fetchStarted, pending, vcard, given, scan, result,
                   birthdays, calendar, headers, body>>

LookupBook ==
    /\ pc = "book"
    /\ IF reqName \notin addressBooks
       THEN pc' = "done" /\ err' = Some("address book not found")
       ELSE pc' = "fetch" /\ err' = err
    /\ UNCHANGED <<reqKey, reqName, fetchStarted, pending, vcard, given, scan, result,
                   birthdays, calendar, headers, body>>

\* getBirthdays up to the decoded multistatus response
getBirthdays ==
    /\ pc = "fetch"
    /\ \/ \E e \in FetchErrors :
            /\ fetchStarted' = (e # "failed to create request")
            /\ pc' = "done"
            /\ err' = Some("failed to get birthdays")
            /\ pending' = pending
       \/ \E n \in 0..MaxCards :
            /\ fetchStarted' = TRUE
            /\ pending' = n
            /\ pc' = "parse"
            /\ err' = err
    /\ UNCHANGED <<reqKey, reqName, vcard, given, scan, result, birthdays, calendar,
                   headers, body>>

\* one iteration of getBirthdays' loop over the propstat entries
ParseEntry ==
    /\ pc = "parse"
    /\ pending > 0
    /\ \E v \in SampleCards :
         LET r == parseBirthdayVCard(v) IN
         /\ vcard' = v
         /\ scan' = r.scan
         /\ result' = r.ret
         /\ birthdays' = IF r.ret # Nil THEN Append(birthdays, r.ret[1]) ELSE birthdays
    /\ pending' = pending - 1
    /\ UNCHANGED <<pc, reqKey, reqName, fetchStarted, given, calendar, headers, body, err>>

getBirtdaysAndGenerateIcs ==
    /\ pc = "parse"
    /\ pending = 0
    /\ \E today \in Todays : calendar' = generateBirthdayIcs(birthdays, today)
    /\ pc' = "respond"
    /\ UNCHANGED <<reqKey, reqName, fetchStarted, pending, vcard, given, scan, result,
                   birthdays, headers, body, err>>

\* the two headers, then w.Write, which may fail
Respond ==
    /\ pc = "respond"
    /\ headers' = { <<"Content-Type", "text/calendar; charset=utf-8">>,
                    <<"Content-Disposition", <<"filename=", reqName, "-birthdays.ics">> >> }
    /\ \/ body' = calendar /\ err' = err
       \/ body' = body /\ err' = Some("write failed")
    /\ pc' = "done"
    /\ UNCHANGED <<reqKey, reqName, fetchStarted, pending, vcard, given, scan, result,
                   birthdays, calendar>>

Next ==
    \/ Request
    \/ CheckApiKey
    \/ LookupBook
    \/ getBirthdays
    \/ ParseEntry
    \/ getBirtdaysAndGenerateIcs
    \/ Respond

Spec == Init /\ [][Next]_vars

-----------------------------------------------------------------------------
(* The extractor on its own: parseBirthdayVCard applied to one record.     *)

\* a record with up to MaxBday birthday lines
Extract ==
    /\ pc = "idle"
    /\ \E v \in MultiCards :
         LET r == parseBirthdayVCard(v) IN
         /\ vcard' = v
         /\ scan' = r.scan
         /\ result' = r.ret
    /\ given' = Nil
    /\ pc' = "extracted"
    /\ UNCHANGED <<reqKey, reqName, fetchStarted, pending, birthdays, calendar,
                   headers, body, err>>

\* a record whose one birthday line carries calendar day t, formatted with
\* layout l, in the bare or the typed encoding e
ExtractDated ==
    /\ pc = "idle"
    /\ \E e \in BdayEncodings, t \in ValidDays, l \in {LayoutCompact, LayoutHyphen, LayoutSlash} :
         LET v == Join(<< <<"F","N",":","J","a","n","e"," ","D","o","e">>, e \o timeFormat(t, l) >>, <<"\n">>)
             r == parseBirthdayVCard(v)
         IN  /\ vcard' = v
             /\ given' = Some([day |-> t, layout |-> l, encoding |-> e])
             /\ scan' = r.scan
             /\ result' = r.ret
    /\ pc' = "extracted"
    /\ UNCHANGED <<reqKey, reqName, fetchStarted, pending, birthdays, calendar,
                   headers, body, err>>

NextExtract == Extract \/ ExtractDated

SpecExtract == Init /\ [][NextExtract]_vars

-----------------------------------------------------------------------------
(* Properties of the extractor (checked under SpecExtract)                 *)

Extracted == pc = "extracted"

\* the whitespace-trimmed lines of the record last extracted
RecordLines == LET ls == Split(vcard, <<"\n">>) IN [i \in 1..Len(ls) |-> TrimSpace(ls[i])]

\* the value of the last line that starts with prefix p, "" when there is none
LastValue(p) ==
    LET hits == { i \in DOMAIN RecordLines : HasPrefix(RecordLines[i], p) }
    IN  IF hits = {} THEN Empty
        ELSE Drop(RecordLines[CHOOSE i \in hits : \A j \in hits : j <= i], Len(p))

FNValue == LastValue(<<"F","N",":">>)

NValue == LastValue(<<"N",":">>)

\* a line whose field name is exactly BDAY: "BDAY:" or "BDAY;annotation:"
IsBirthdayLine(line) == HasPrefix(line, <<"B","D","A","Y",":">>) \/ HasPrefix(line, <<"B","D","A","Y",";">>)

BirthdayLineIdx == { i \in DOMAIN RecordLines : IsBirthdayLine(RecordLines[i]) }

\* a line in the bare or the typed encoding, and the value it carries
IsEncodedBirthday(line) == \E e \in BdayEncodings : HasPrefix(line, e)

EncodedValue(line) ==
    IF HasPrefix(line, <<"B","D","A","Y",":">>) THEN Drop(line, 5) ELSE Drop(line, 16)

\* the value, cut at its first T, parses under none of the three layouts
FailsAllFormats(v) ==
    LET c == IF \E i \in DOMAIN v : v[i] = "T"
             THEN Take(v, (CHOOSE i \in DOMAIN v : v[i] = "T" /\ \A j \in 1..(i - 1) : v[j] # "T") - 1)
             ELSE v
    IN  \A l \in {LayoutCompact, LayoutHyphen, LayoutSlash} : timeParse(l, c) = Nil

\* the locals of the scan after the first n lines of the record
ScanAfter(n) == scanLines(SubSeq(RecordLines, 1, n), scanInit)

\* C1: a fact is returned exactly when the scan ended with a parsed date and
\* a non-empty FN or N value; its display name is the FN value when that is
\* non-empty and the N value otherwise, so never empty; a record with no FN
\* and no N line yields nothing, whatever its birthday lines hold.
C1_FactIffDateAndName ==
    Extracted =>
        /\ (result # Nil) <=> (scan.birthdayDate # Nil /\ (FNValue # Empty \/ NValue # Empty))
        /\ result # Nil =>
             /\ result[1].FullName = (IF FNValue # Empty THEN FNValue ELSE NValue)
             /\ result[1].FullName # Empty
             /\ result[1].Date = FromTime(scan.birthdayDate[1])
        /\ (\A i \in DOMAIN RecordLines :
               ~HasPrefix(RecordLines[i], <<"F","N",":">>) /\ ~HasPrefix(RecordLines[i], <<"N",":">>))
             => result = Nil

\* C1 witness: a fact whose name fell back to the N value of an empty FN line
C1_Witness ==
    /\ Extracted
    /\ result # Nil
    /\ FNValue = Empty
    /\ \E i \in DOMAIN RecordLines : RecordLines[i] = <<"F","N",":">>
    /\ result[1].FullName = <<"D","o","e",";","J","a","n","e",";",";",";">>

\* the birthday lines that carry a value
ValuedBirthdayIdx ==
    { i \in BirthdayLineIdx :
        IsEncodedBirthday(RecordLines[i]) /\ EncodedValue(RecordLines[i]) # Empty }

\* C2: with several birthday lines the last one decides: the date held at the
\* end of the scan (a parsed date or none) is the one the last birthday line
\* of the record that carries a value determines on its own.
C2_LastBirthdayLineWins ==
    Extracted /\ ValuedBirthdayIdx # {} =>
        LET last == CHOOSE i \in ValuedBirthdayIdx : \A j \in ValuedBirthdayIdx : j <= i
        IN  scan.birthdayDate = scanLine(scanInit, RecordLines[last]).birthdayDate

\* C3: a birthday value that fails all three formats produces a diagnostic, and
\* a record whose deciding (last) birthday value fails them ends with no date
\* and, having a name, yields nothing.
C3_UnparseableIsReportedAndAbsent ==
    Extracted =>
        /\ \A i \in BirthdayLineIdx :
             LET line == RecordLines[i] IN
             (IsEncodedBirthday(line) /\ EncodedValue(line) # Empty
                /\ FailsAllFormats(EncodedValue(line)))
             => Len(ScanAfter(i).printed) = Len(ScanAfter(i - 1).printed) + 1
        /\ BirthdayLineIdx # {} =>
             LET last == CHOOSE i \in BirthdayLineIdx : \A j \in BirthdayLineIdx : j <= i
                 line == RecordLines[last]
             IN  (IsEncodedBirthday(line) /\ EncodedValue(line) # Empty
                    /\ FailsAllFormats(EncodedValue(line)))
                 => scan.birthdayDate = Nil /\ result = Nil

\* C4: one birthday line carrying a valid calendar day in compact, hyphen or
\* slash form, bare or typed, yields that day; the layouts are tried in the
\* order compact, hyphen, slash and the one that parses is the last one tried.
C4_DateFormatsParse ==
    Extracted /\ given # Nil =>
        LET g == given[1]
            k == CHOOSE n \in 1..3 : <<LayoutCompact, LayoutHyphen, LayoutSlash>>[n] = g.layout
        IN  /\ scan.birthdayDate = Some(g.day)
            /\ scan.tried = SubSeq(<<LayoutCompact, LayoutHyphen, LayoutSlash>>, 1, k)
            /\ scan.printed = << >>
            /\ result # Nil
            /\ result[1].Date = [year |-> g.day.year, month |-> g.day.month, day |-> g.day.day]

\* C4 witness: the leap day of 2000 in slash form, typed encoding
C4_Witness ==
    /\ Extracted
    /\ given # Nil
    /\ vcard = <<"F","N",":","J","a","n","e"," ","D","o","e","\n","B","D","A","Y",";","V","A","L","U","E","=","d","a","t","e",":","2","0","0","0","/","0","2","/","2","9">>
    /\ scan.birthdayDate # Nil
    /\ scan.birthdayDate[1].year = 2000 /\ scan.birthdayDate[1].month = 2
    /\ scan.birthdayDate[1].day = 29

\* suffixes that may follow the T of a birthday value
TimeSuffixes == { Empty, <<"0","0","0","0","0","0","Z">>, <<"0","0",":","0","0",":","0","0","+","0","1",":","0","0">>, <<";","V","A","L","U","E","=","d","a","t","e",":">> }

\* the record with line i replaced
WithLine(i, line) == Join([RecordLines EXCEPT ![i] = line], <<"\n">>)

\* C5: a birthday value without T, followed by T and any suffix, extracts to
\* the same result as the value alone.
C5_TimeSuffixIgnored ==
    Extracted =>
        \A i \in BirthdayLineIdx : \A s \in TimeSuffixes :
            LET line == RecordLines[i] IN
            (IsEncodedBirthday(line) /\ \A n \in DOMAIN EncodedValue(line) : EncodedValue(line)[n] # "T")
            => parseBirthdayVCard(WithLine(i, line \o <<"T">> \o s)).ret = result

\* C9: a line whose field name is not exactly BDAY leaves the birthday date
\* as it was.
C9_OnlyBdayFieldSetsBirthday ==
    Extracted =>
        \A i \in DOMAIN RecordLines :
            ~IsBirthdayLine(RecordLines[i])
            => ScanAfter(i).birthdayDate = ScanAfter(i - 1).birthdayDate

-----------------------------------------------------------------------------
(* Properties of the serializer and the handler (checked under Spec)       *)

Generated == pc \in {"respond", "done"} /\ calendar # Empty

\* the lines of the document: the pieces between CRLFs, the last one empty
DocLines == Split(calendar, <<"\r","\n">>)

\* C6: the document is the four header lines, then one eight-line event block
\* per fact, the i-th block built from the i-th fact, then the footer line;
\* for no facts it is the header and the footer only.
C6_HeaderBlocksFooter ==
    Generated =>
        LET n == Len(birthdays) IN
        /\ Len(DocLines) = 4 + 8 * n + 2
        /\ SubSeq(DocLines, 1, 4) = << <<"B","E","G","I","N",":","V","C","A","L","E","N","D","A","R">>, <<"V","E","R","S","I","O","N",":","2",".","0">>,
                                       <<"P","R","O","D","I","D",":","-","/","/","C","a","r","d","D","A","V"," ","B","i","r","t","h","d","a","y","s","/","/","E","N">>,
                                       <<"C","A","L","S","C","A","L","E",":","G","R","E","G","O","R","I","A","N">> >>
        /\ DocLines[4 + 8 * n + 1] = <<"E","N","D",":","V","C","A","L","E","N","D","A","R">>
        /\ DocLines[4 + 8 * n + 2] = Empty
        /\ \A i \in 1..n :
             LET at == 4 + 8 * (i - 1) IN
             /\ DocLines[at + 1] = <<"B","E","G","I","N",":","V","E","V","E","N","T">>
             /\ HasPrefix(DocLines[at + 2], <<"U","I","D",":">>)
             /\ HasPrefix(DocLines[at + 3], <<"D","T","S","T","A","R","T",";","V","A","L","U","E","=","D","A","T","E",":">>)
             /\ DocLines[at + 4] = <<"R","R","U","L","E",":","F","R","E","Q","=","Y","E","A","R","L","Y">>
             /\ DocLines[at + 5] = <<"S","U","M","M","A","R","Y",":">> \o birthdays[i].FullName \o <<"'","s"," ","B","i","r","t","h","d","a","y">>
             /\ HasPrefix(DocLines[at + 6],
                          <<"D","E","S","C","R","I","P","T","I","O","N",":">> \o birthdays[i].FullName \o <<" ","b","o","r","n"," ","o","n"," ">>)
             /\ DocLines[at + 7] = <<"T","R","A","N","S","P",":","T","R","A","N","S","P","A","R","E","N","T">>
             /\ DocLines[at + 8] = <<"E","N","D",":","V","E","V","E","N","T">>

\* C6 witness: two different facts, serialized in the order collected
C6_Witness ==
    /\ Generated
    /\ Len(birthdays) = 2
    /\ birthdays[1].FullName = <<"R","o","e",";","A","l">>
    /\ birthdays[2].FullName = <<"J","a","n","e"," ","D","o","e">>
    /\ DocLines[9] = <<"S","U","M","M","A","R","Y",":","R","o","e",";","A","l","'","s"," ","B","i","r","t","h","d","a","y">>
    /\ DocLines[17] = <<"S","U","M","M","A","R","Y",":","J","a","n","e"," ","D","o","e","'","s"," ","B","i","r","t","h","d","a","y">>

\* C7: the document ends with CRLF and every line feed in it follows a
\* carriage return.
C7_EveryLineEndsCRLF ==
    Generated =>
        /\ Len(calendar) >= 2
        /\ SubSeq(calendar, Len(calendar) - 1, Len(calendar)) = <<"\r","\n">>
        /\ \A i \in DOMAIN calendar :
             calendar[i] = "\n" => i > 1 /\ calendar[i - 1] = "\r"

\* C7 witness: a document with an event whose name holds a carriage return
C7_Witness ==
    /\ Generated
    /\ \E i \in DOMAIN birthdays : \E n \in DOMAIN birthdays[i].FullName :
         birthdays[i].FullName[n] = "\r"
    /\ \E i \in DOMAIN calendar : calendar[i] = "\n"

\* C8: the identifier line of the i-th block is the name without its spaces,
\* "-birthday-" and the year in decimal; its start line is the date as
\* YYYYMMDD marked VALUE=DATE.  Jane Doe, 2003-06-15 gives
\* JaneDoe-birthday-2003 and 20030615.
C8_IdentifierAndStart ==
    Generated =>
        \A i \in DOMAIN birthdays :
            LET b == birthdays[i]
                at == 4 + 8 * (i - 1)
                noSpace == SelectSeq(b.FullName, LAMBDA c : c # " ")
            IN  /\ DocLines[at + 2] = <<"U","I","D",":">> \o noSpace \o <<"-","b","i","r","t","h","d","a","y","-">> \o Itoa(b.Date.year)
                /\ DocLines[at + 3] = <<"D","T","S","T","A","R","T",";","V","A","L","U","E","=","D","A","T","E",":">> \o Pad(b.Date.year, 4)
                                        \o Pad(b.Date.month, 2) \o Pad(b.Date.day, 2)
                /\ (b.FullName = <<"J","a","n","e"," ","D","o","e">> /\ b.Date = [year |-> 2003, month |-> 6, day |-> 15])
                   => /\ DocLines[at + 2] = <<"U","I","D",":","J","a","n","e","D","o","e","-","b","i","r","t","h","d","a","y","-","2","0","0","3">>
                      /\ DocLines[at + 3] = <<"D","T","S","T","A","R","T",";","V","A","L","U","E","=","D","A","T","E",":","2","0","0","3","0","6","1","5">>

\* C8 witness: Jane Doe, born 2003-06-15, is the second event
C8_Witness ==
    /\ Generated
    /\ Len(birthdays) >= 2
    /\ birthdays[2].FullName = <<"J","a","n","e"," ","D","o","e">>
    /\ birthdays[2].Date = [year |-> 2003, month |-> 6, day |-> 15]
    /\ DocLines[14] = <<"U","I","D",":","J","a","n","e","D","o","e","-","b","i","r","t","h","d","a","y","-","2","0","0","3">>

\* C10: a fetch is started, and calendar headers or a body written, only for
\* a request whose apiKey equals the configured key and whose address book
\* is configured; a request failing either check ends in an error with no
\* fetch started, and it or a failed fetch leaves no header and no body.
C10_FetchOnlyWhenAuthorized ==
    /\ fetchStarted => reqKey = apiKey /\ reqName \in addressBooks
    /\ (headers # {} \/ body # Empty) =>
         /\ reqKey = apiKey /\ reqName \in addressBooks
         /\ fetchStarted
    /\ body # Empty => body = calendar /\ err = Nil
    /\ (pc = "done" /\ (reqKey # apiKey \/ reqName \notin addressBooks)) =>
         /\ err \in {Some("invalid api key"), Some("address book not found")}
         /\ ~fetchStarted
         /\ headers = {} /\ body = Empty
    /\ (pc = "done" /\ err = Some("failed to get birthdays")) =>
         headers = {} /\ body = Empty

\* C10 witness: an authorized request served a calendar with an event
C10_Witness ==
    /\ pc = "done"
    /\ err = Nil
    /\ fetchStarted
    /\ birthdays # << >>
    /\ body = calendar
    /\ <<"Content-Type", "text/calendar; charset=utf-8">> \in headers

====
